---- MODULE Spec2Model ----
(***************************************************************************)
(* Model of the electronics-catalog tooling:                               *)
(*   scripts/build_labels.py         stable print order and sheet packing  *)
(*   scripts/generate_id_registry.py identifier registry                   *)
(*                                                                         *)
(* Strings are sequences of one-character strings, so that indexing,       *)
(* prefix tests, regular-expression matching and code-point comparison     *)
(* are computed rather than assumed.                                       *)
(***************************************************************************)
EXTENDS Integers, Sequences, FiniteSets, TLC

VARIABLES
    assignment,     \* stickers/assignment.json        (build_labels.py)
    positions_csv,  \* stickers/sheet_positions.csv    (build_labels.py)
    sheets_csv,     \* stickers/sheets.csv             (build_labels.py)
    comp_ids,       \* build_order's argument in the last run
    keep,           \* build_order's local keep in the last run
    new,            \* build_order's local new in the last run
    order,          \* build_order's result in the last run
    last_run,       \* history of the last run: what kind of assignment.json it found,
                    \* whether a run came before it, whether its identifiers were
                    \* those of the run before, which identifiers it dropped
    catalog,        \* the *.md entries generate_id_registry.py scans
    registry,       \* stickers/id_registry.yaml
    registry_simple,\* stickers/id_registry_simple.yaml
    alloc_in,       \* arguments of a direct call of next_number / next_in_family
    alloc_out,      \* what the calls returned
    parse_arg,      \* argument of a direct call of parse_id
    parse_ret,      \* what parse_id returned
    pack_arg,       \* arguments of a direct call of pack_sheets_stable
    pack_ret        \* the sheets_meta and positions pack_sheets_stable built

vars == <<assignment, positions_csv, sheets_csv, comp_ids, keep, new, order,
          last_run, catalog, registry, registry_simple, alloc_in, alloc_out,
          parse_arg, parse_ret, pack_arg, pack_ret>>

label_vars == <<assignment, positions_csv, sheets_csv, comp_ids, keep, new, order,
                last_run>>
registry_vars == <<catalog, registry, registry_simple>>
alloc_vars == <<alloc_in, alloc_out>>
call_vars == <<parse_arg, parse_ret, pack_arg, pack_ret>>

(***************************************************************************)
(* Bounds                                                                  *)
(***************************************************************************)
\* longest identifier list of an assignment.json that exists before the first run
MaxFileLen == 2
\* most entries of a small catalog
MaxEntries == 2
\* most numbers added to or removed from a range of used numbers
MaxEdits == 1
\* longest order given to a direct call of pack_sheets_stable
MaxOrderLen == 5

(***************************************************************************)
(* Characters and strings                                                  *)
(***************************************************************************)
UpperAZ == {"A","B","C","D","E","F","G","H","I","J","K","L","M",
            "N","O","P","Q","R","S","T","U","V","W","X","Y","Z"}

AsciiDigits == {"0","1","2","3","4","5","6","7","8","9"}

\* Unicode code points of the characters identifiers are compared by
CodePoint ==
    ("\n" :> 10) @@
    ("0" :> 48) @@ ("1" :> 49) @@ ("2" :> 50) @@ ("3" :> 51) @@ ("4" :> 52) @@
    ("5" :> 53) @@ ("6" :> 54) @@ ("7" :> 55) @@ ("8" :> 56) @@ ("9" :> 57) @@
    ("A" :> 65) @@ ("B" :> 66) @@ ("C" :> 67) @@ ("D" :> 68) @@ ("E" :> 69) @@
    ("F" :> 70) @@ ("G" :> 71) @@ ("H" :> 72) @@ ("I" :> 73) @@ ("J" :> 74) @@
    ("K" :> 75) @@ ("L" :> 76) @@ ("M" :> 77) @@ ("N" :> 78) @@ ("O" :> 79) @@
    ("P" :> 80) @@ ("Q" :> 81) @@ ("R" :> 82) @@ ("S" :> 83) @@ ("T" :> 84) @@
    ("U" :> 85) @@ ("V" :> 86) @@ ("W" :> 87) @@ ("X" :> 88) @@ ("Y" :> 89) @@
    ("Z" :> 90) @@ ("_" :> 95) @@
    ("a" :> 97) @@ ("p" :> 112) @@ ("s" :> 115) @@ ("x" :> 120) @@
    ("u0660" :> 1632) @@ ("u0661" :> 1633) @@ ("u0662" :> 1634)

\* Python's str < str: the first differing code point decides, a proper prefix is smaller
StrLess(s, t) ==
    \E k \in 1..(Len(s) + 1) :
        /\ k <= Len(t)
        /\ \A j \in 1..(k - 1) : s[j] = t[j]
        /\ \/ k = Len(s) + 1
           \/ CodePoint[s[k]] < CodePoint[t[k]]

InList(x, list) == \E i \in DOMAIN list : list[i] = x

ListSet(list) == { list[i] : i \in DOMAIN list }

\* x put into the ascending list after every element that is not greater
RECURSIVE InsertSorted(_, _)
InsertSorted(x, sorted) ==
    IF sorted = <<>> \/ StrLess(x, Head(sorted))
    THEN <<x>> \o sorted
    ELSE <<Head(sorted)>> \o InsertSorted(x, Tail(sorted))

\* sorted(list) on strings: ascending, equal elements keep their order (stable)
RECURSIVE SortedFrom(_, _, _)
SortedFrom(list, i, acc) ==
    IF i > Len(list) THEN acc
    ELSE SortedFrom(list, i + 1, InsertSorted(list[i], acc))

SortedStrings(list) == SortedFrom(list, 1, <<>>)

\* sorted(d.keys()) of a dict whose key set is S
RECURSIVE SortedKeys(_)
SortedKeys(S) ==
    IF S = {} THEN <<>>
    ELSE LET m == CHOOSE x \in S : \A y \in S : ~StrLess(y, x)
         IN  <<m>> \o SortedKeys(S \ {m})

\* f"{n:03d}": decimal digits, zero-padded to at least three
DigitChar == <<"0","1","2","3","4","5","6","7","8","9">>

Fmt03d(n) ==
    IF n < 1000
    THEN << DigitChar[(n \div 100) + 1], DigitChar[((n \div 10) % 10) + 1],
            DigitChar[(n % 10) + 1] >>
    ELSE << DigitChar[((n \div 1000) % 10) + 1], DigitChar[((n \div 100) % 10) + 1],
            DigitChar[((n \div 10) % 10) + 1], DigitChar[(n % 10) + 1] >>

(***************************************************************************)
(* build_labels.py                                                         *)
(***************************************************************************)
LABEL_HEIGHT_PX == 200
LABEL_GAP_PX == 8

\* the identifiers a catalog entry can carry for labelling (fallback_id_for)
LabelIds == { <<"A","1">>, <<"A","1","0">>, <<"A","2">>, <<"B","1">>, <<"a","1">> }

SeqsUpTo(S, n) == UNION { [1..k -> S] : k \in 0..n }

\* what assignment.json can hold: nothing, text that is no JSON, JSON that is no
\* object, an object without "order", an object whose "order" is no list (an
\* object keyed by identifiers), or {"order": [...]}; items are the identifiers
\* the text names, in order
FileKinds == {"missing", "invalid_json", "not_dict", "no_order_key", "order_not_list", "ok"}

NoCsv == [exists |-> FALSE, rows |-> <<>>]

NoRun == [file_kind |-> "none", rerun |-> FALSE, same_ids |-> FALSE, dropped |-> {}]

\* load_assignment without the isinstance(data["order"], list) test
load_assignment_any_order(file) ==
    IF file.kind = "ok" \/ file.kind = "order_not_list" THEN file.items ELSE <<>>

load_assignment(file) ==
    IF file.kind # "missing"
    THEN IF file.kind = "invalid_json"
         THEN <<>>
         ELSE IF file.kind # "not_dict" /\ file.kind # "no_order_key"
                 /\ file.kind # "order_not_list"
              THEN file.items
              ELSE <<>>
    ELSE <<>>

\* the order sorted before it is written
save_assignment_sorted(o) == [kind |-> "ok", items |-> SortedStrings(o)]

save_assignment(o) == [kind |-> "ok", items |-> o]

\* keep re-sorted instead of left in its previous order
keep_of_sorted(p, ids) == SortedStrings(SelectSeq(p, LAMBDA cid : InList(cid, ids)))

\* new without the "not in prev" filter
new_of_unfiltered(p, ids) == SortedStrings(ids)

keep_of(p, ids) == SelectSeq(p, LAMBDA cid : InList(cid, ids))

new_of(p, ids) == SortedStrings(SelectSeq(ids, LAMBDA cid : ~InList(cid, p)))

\* new + keep instead of keep + new
build_order_new_first(p, ids) ==
    SortedStrings(SelectSeq(ids, LAMBDA cid : ~InList(cid, p)))
    \o SelectSeq(p, LAMBDA cid : InList(cid, ids))

build_order(p, ids) == keep_of(p, ids) \o new_of(p, ids)

sheet_name(sheet_index) == <<"sheet_">> \o Fmt03d(sheet_index) \o <<".png">>

Sum(f, n) == LET S[k \in 0..n] == IF k = 0 THEN 0 ELSE S[k - 1] + f[k] IN S[n]

Max2(a, b) == IF a >= b THEN a ELSE b

\* the label make_label_png composes for each identifier of keys: an image of
\* exactly MAX_WIDTH x LABEL_HEIGHT_PX, given here by its height
label_pngs(keys) == [cid \in keys |-> LABEL_HEIGHT_PX]

\* the packable sequence cut off at the first identifier without an artifact
seq_of_until_missing(img_map, o) ==
    IF \E k \in DOMAIN o : o[k] \notin DOMAIN img_map
    THEN SubSeq(o, 1, (CHOOSE k \in DOMAIN o :
                          /\ o[k] \notin DOMAIN img_map
                          /\ \A j \in 1..(k - 1) : o[j] \in DOMAIN img_map) - 1)
    ELSE o

\* seq = [cid for cid in order if cid in img_map]; img_map: identifier -> height
seq_of(img_map, o) == SelectSeq(o, LAMBDA cid : cid \in DOMAIN img_map)

\* groups of five
chunk_of_five(seq, i) ==
    SubSeq(seq, i, IF i + 4 <= Len(seq) THEN i + 4 ELSE Len(seq))

\* seq[i:i+4], i counted from 1
chunk_of(seq, i) ==
    SubSeq(seq, i, IF i + 3 <= Len(seq) THEN i + 3 ELSE Len(seq))

\* the gaps left out of the sheet's height
total_h_without_gaps(heights) == Sum(heights, Len(heights))

\* sum(im.height for im in images) + LABEL_GAP_PX * max(0, len(images) - 1)
total_h_of(heights) ==
    Sum(heights, Len(heights)) + LABEL_GAP_PX * Max2(0, Len(heights) - 1)

\* the while loop of pack_sheets_stable from index i (1-based) on
RECURSIVE pack_loop(_, _, _, _, _, _)
pack_loop(img_map, seq, i, sheet_index, sheets_meta, positions) ==
    IF i > Len(seq)
    THEN [sheets_meta |-> sheets_meta, positions |-> positions]
    ELSE LET chunk == chunk_of(seq, i)
             heights == [k \in 1..Len(chunk) |-> img_map[chunk[k]]]
             total_h == total_h_of(heights)
             out_name == sheet_name(sheet_index)
         IN  pack_loop(img_map, seq, i + Len(chunk), sheet_index + 1,
                 Append(sheets_meta,
                        [sheet |-> out_name, height_px |-> total_h,
                         labels |-> Len(chunk)]),
                 positions \o
                   [pos \in 1..Len(chunk) |->
                      [sheet |-> out_name, position |-> pos, id |-> chunk[pos]]])

Reverse(list) == [i \in 1..Len(list) |-> list[Len(list) + 1 - i]]

\* packing the newest identifiers first
pack_sheets_newest_first(id_to_img, o) ==
    pack_loop(id_to_img, Reverse(seq_of(id_to_img, o)), 1, 1, <<>>, <<>>)

\* id_to_img: the height of the image at each identifier's path
pack_sheets_stable(id_to_img, o) ==
    pack_loop(id_to_img, seq_of(id_to_img, o), 1, 1, <<>>, <<>>)

\* lines 358-361 and 435-439: sheet_positions.csv is always rewritten,
\* sheets.csv only when there is a sheet
write_csvs(packed) ==
    /\ positions_csv' = [exists |-> TRUE, rows |-> packed.positions]
    /\ sheets_csv' = IF packed.sheets_meta # <<>>
                     THEN [exists |-> TRUE, rows |-> packed.sheets_meta]
                     ELSE sheets_csv

\* main: id_to_path holds one label per identifier of keys
Main(keys) ==
    /\ comp_ids' = SortedKeys(keys)
    /\ keep' = keep_of(load_assignment(assignment), comp_ids')
    /\ new' = new_of(load_assignment(assignment), comp_ids')
    /\ order' = build_order(load_assignment(assignment), comp_ids')
    /\ assignment' = save_assignment(order')
    /\ write_csvs(pack_sheets_stable(label_pngs(keys), order'))
    /\ last_run' = [file_kind |-> assignment.kind,
                    rerun |-> positions_csv.exists,
                    same_ids |-> positions_csv.exists /\ comp_ids' = comp_ids,
                    dropped |-> ListSet(load_assignment(assignment)) \ keys]
    /\ UNCHANGED registry_vars
    /\ UNCHANGED alloc_vars
    /\ UNCHANGED call_vars

BuildLabels == \E keys \in SUBSET LabelIds : Main(keys)

(***************************************************************************)
(* generate_id_registry.py                                                 *)
(***************************************************************************)
None == <<"None">>

\* the keys of CATEGORY_TITLES
CATEGORY_TITLES ==
    { <<"T","S">>, <<"E","N","V">>, <<"P","S">>, <<"M","C">>, <<"R","F">>,
      <<"I","O">>, <<"A","C">>, <<"C","N">>, <<"P","A">>, <<"O","T">> }

\* \d of a str pattern: every Unicode decimal digit; "u0660".."u0662" stand for
\* the single characters ARABIC-INDIC DIGIT ZERO..TWO
UnicodeDigits == {"u0660", "u0661", "u0662"}

IsDigit(c) == c \in AsciiDigits \/ c \in UnicodeDigits

\* the value int() gives a decimal digit character
DigitValue(c) == IF c \in AsciiDigits THEN CodePoint[c] - 48 ELSE CodePoint[c] - 1632

\* ID_RE.match: ^([A-Z]{2,3})(\d{3})$ ; $ also matches before one final newline.
\* The number of letters matched, or 0 when there is no match.
ID_RE_letters(str) ==
    LET fits(L) ==
            /\ Len(str) >= L + 3
            /\ \A i \in 1..L : str[i] \in UpperAZ
            /\ \A i \in (L + 1)..(L + 3) : IsDigit(str[i])
            /\ \/ Len(str) = L + 3
               \/ (Len(str) = L + 4 /\ str[L + 4] = "\n")
    IN  IF fits(3) THEN 3 ELSE IF fits(2) THEN 2 ELSE 0

\* int(m.group(2)) of a string that matches with L letters
ID_RE_number(str, L) ==
    100 * DigitValue(str[L + 1]) + 10 * DigitValue(str[L + 2]) + DigitValue(str[L + 3])

\* lines 70-76 of parse_id, L being the letters ID_RE matched (0: no match)
parse_id_match(comp_id, L, num) ==
    IF L = 0
    THEN [cat |-> None, num |-> None, hund |-> None, is_anchor |-> FALSE]
    ELSE [cat |-> SubSeq(comp_id, 1, L), num |-> num,
          hund |-> (num \div 100) % 10, is_anchor |-> (num % 100 = 0)]

parse_id(comp_id) ==
    parse_id_match(comp_id, ID_RE_letters(comp_id),
                   ID_RE_number(comp_id, ID_RE_letters(comp_id)))

\* the scan begun at 0 instead of 1
next_number_from_zero(used_nums) ==
    IF \E n \in 0..999 : n \notin used_nums
    THEN Fmt03d(CHOOSE n \in 0..999 :
                    n \notin used_nums /\ \A m \in 0..(n - 1) : m \in used_nums)
    ELSE None

\* for n in range(1, 1000): the first n of the scan that is not in used_nums
next_number(used_nums) ==
    IF \E n \in 1..999 : n \notin used_nums
    THEN Fmt03d(CHOOSE n \in 1..999 :
                    n \notin used_nums /\ \A m \in 1..(n - 1) : m \in used_nums)
    ELSE None

\* the scan running on into the blocks that follow
next_in_family_crossing(used_nums, hund) ==
    IF \E n \in (hund * 100)..999 : n \notin used_nums
    THEN Fmt03d(CHOOSE n \in (hund * 100)..999 :
                    n \notin used_nums /\ \A m \in (hund * 100)..(n - 1) : m \in used_nums)
    ELSE None

\* for off in range(0, 100): the first base + off of the scan that is not in used_nums
next_in_family(used_nums, hund) ==
    LET base == hund * 100
    IN  IF base \notin used_nums THEN Fmt03d(base)
        ELSE IF \E off \in 0..99 : (base + off) \notin used_nums
        THEN Fmt03d(base + CHOOSE off \in 0..99 :
                        /\ (base + off) \notin used_nums
                        /\ \A o \in 0..(off - 1) : (base + o) \in used_nums)
        ELSE None

\* md.name.lower() of the file names catalog entries have
LowerName ==
    ("index.md" :> "index.md") @@ ("INDEX.md" :> "index.md") @@ ("leaf.md" :> "leaf.md")

\* f'{cat}{hund}xx'
fam_key(cat, hund) == cat \o <<DigitChar[hund + 1], "x", "x">>

\* an anchor wherever the number ends in 00, index.md or not
item_of_any_file(e, p) ==
    [id |-> e.id, category |-> p.cat, number |-> p.num, hundreds |-> p.hund,
     is_family_anchor |-> p.is_anchor]

\* the record main appends to items for an entry whose identifier parsed as p
item_of(e, p) ==
    [id |-> e.id, category |-> p.cat, number |-> p.num, hundreds |-> p.hund,
     is_family_anchor |-> (p.is_anchor /\ LowerName[e.file] = "index.md")]

\* the first loop of main: one item per entry with a conforming identifier
items_of(entries) ==
    LET conforming == SelectSeq(entries, LAMBDA e : ID_RE_letters(e.id) # 0)
    IN  [i \in 1..Len(conforming) |-> item_of(conforming[i], parse_id(conforming[i].id))]
        \o <<>>

\* the warnings of the first loop, in entry order
warnings_of(entries) ==
    LET skipped == SelectSeq(entries, LAMBDA e : ID_RE_letters(e.id) = 0)
    IN  [i \in 1..Len(skipped) |-> <<"skip-nonstandard-id", skipped[i].id, skipped[i].file>>]

anchors_of(items) ==
    { fam_key(items[i].category, items[i].hundreds) :
        i \in { j \in DOMAIN items : items[j].is_family_anchor } }

used_by_cat_of(items, cat) ==
    { items[i].number : i \in { j \in DOMAIN items : items[j].category = cat } }

\* id_num: the number of an identifier, 0 when it does not match
id_num(cid) ==
    IF ID_RE_letters(cid) # 0 THEN ID_RE_number(cid, ID_RE_letters(cid)) ELSE 0

\* the members left in file order
members_unsorted(members) == members

\* sorted(fam["members"], key=id_num): ascending by key, elements of equal key
\* keep their order (SortSeq moves an element left only past elements that the
\* comparison puts after it)
members_sorted(members) ==
    SortSeq(members, LAMBDA a, b : id_num(a) < id_num(b))

\* the record of the family with key k, mine being the items that fall under it
family_of(k, mine) ==
    [key |-> k,
     anchor |-> mine[1].category \o <<DigitChar[mine[1].hundreds + 1], "0", "0">>,
     members |-> members_sorted([i \in 1..Len(mine) |-> mine[i].id])]

\* families: one record per anchored family key that an item falls under
families_in(items, anchors) ==
    [k \in { fam_key(items[i].category, items[i].hundreds) : i \in DOMAIN items }
            \cap anchors |->
        family_of(k, SelectSeq(items,
                        LAMBDA it : fam_key(it.category, it.hundreds) = k))]

IsPrefix(p, str) == Len(p) <= Len(str) /\ SubSeq(str, 1, Len(p)) = p

\* next_by_family of one category; int(fk[len(cat_code)]) raises on a letter
\* and the family is skipped
next_by_family_of(cat_code, nums, anchors) ==
    LET fams_in_cat == { fk \in anchors : IsPrefix(cat_code, fk) }
        usable == { fk \in fams_in_cat : IsDigit(fk[Len(cat_code) + 1]) }
        cand(fk) == next_in_family(nums, DigitValue(fk[Len(cat_code) + 1]))
    IN  [fk \in { f \in usable : cand(f) # None } |-> cat_code \o cand(fk)]

next_any_of(cat_code, next_any) ==
    IF next_any # None THEN cat_code \o next_any ELSE None

\* the record main builds for one key of CATEGORY_TITLES, nums being its used numbers
category_of(cat_code, nums, anchors) ==
    [count |-> Cardinality(nums),
     used_numbers |-> nums,
     next_any |-> next_any_of(cat_code,
                     IF nums # {} THEN next_number(nums) ELSE Fmt03d(1)),
     next_by_family |-> next_by_family_of(cat_code, nums, anchors)]

\* the sort key of ids: (category, number)
IdsKeyLess(a, b) ==
    IF a.category = b.category THEN a.number < b.number
    ELSE StrLess(a.category, b.category)

\* sorted(items, key=lambda x: (x["category"], x["number"])), stable
ids_sorted(items) == SortSeq(items, IdsKeyLess)

\* categories built for the categories seen in the items, not for CATEGORY_TITLES
full_payload_observed(items, anchors, warnings) ==
    [exists |-> TRUE,
     ids |-> ids_sorted(items),
     categories |-> [c \in { items[i].category : i \in DOMAIN items } |->
                        category_of(c, used_by_cat_of(items, c), anchors)],
     families |-> families_in(items, anchors),
     warnings |-> warnings]

full_payload(items, anchors, warnings) ==
    [exists |-> TRUE,
     ids |-> ids_sorted(items),
     categories |-> [c \in CATEGORY_TITLES |->
                        category_of(c, used_by_cat_of(items, c), anchors)],
     families |-> families_in(items, anchors),
     warnings |-> warnings]

simple_payload(categories, families) ==
    [exists |-> TRUE,
     categories |-> [c \in DOMAIN categories |->
                        [count |-> categories[c].count,
                         next_any |-> categories[c].next_any,
                         next_by_family |-> categories[c].next_by_family]],
     families |-> [k \in DOMAIN families |->
                        [anchor |-> families[k].anchor,
                         members |-> families[k].members]]]

registry_of(items, warnings) == full_payload(items, anchors_of(items), warnings)

\* main of generate_id_registry.py over the entries of the catalog
GenerateRegistry ==
    /\ registry' = registry_of(items_of(catalog), warnings_of(catalog))
    /\ registry_simple' = simple_payload(registry'.categories, registry'.families)
    /\ UNCHANGED catalog
    /\ UNCHANGED label_vars
    /\ UNCHANGED alloc_vars
    /\ UNCHANGED call_vars

NoRegistry == [exists |-> FALSE]

InitLabels ==
    /\ assignment \in [kind : FileKinds, items : SeqsUpTo(LabelIds, MaxFileLen)]
    /\ assignment.kind = "missing" => assignment.items = <<>>
    /\ positions_csv = NoCsv
    /\ sheets_csv = NoCsv
    /\ comp_ids = <<>>
    /\ keep = <<>>
    /\ new = <<>>
    /\ order = <<>>
    /\ last_run = NoRun

Pending == <<"pending">>

NoCall == [active |-> FALSE, used |-> {}, hund |-> 0]

NoResult == [any |-> Pending, family |-> Pending]

NoParse == [active |-> FALSE, comp_id |-> <<>>]

NoParseRet == [done |-> FALSE, result |-> parse_id(<<>>)]

NoPack == [active |-> FALSE, id_to_img |-> <<>>, order |-> <<>>]

NoPackRet == [done |-> FALSE, sheets_meta |-> <<>>, positions |-> <<>>]

InitNoCalls ==
    /\ parse_arg = NoParse
    /\ parse_ret = NoParseRet
    /\ pack_arg = NoPack
    /\ pack_ret = NoPackRet

Init ==
    /\ InitLabels
    /\ catalog = <<>>
    /\ registry = NoRegistry
    /\ registry_simple = NoRegistry
    /\ alloc_in = NoCall
    /\ alloc_out = NoResult
    /\ InitNoCalls

Next == BuildLabels

Spec == Init /\ [][Next]_vars

\* the runs that begin with assignment.json missing or naming no identifier
InitFresh ==
    /\ Init
    /\ assignment.items = <<>>

SpecFresh == InitFresh /\ [][Next]_vars

(***************************************************************************)
(* The registry generator over bounded catalogs, and direct calls of the   *)
(* two allocation functions over bounded sets of used numbers              *)
(***************************************************************************)
PS == <<"P","S">>

Entry(id, file) == [id |-> id, file |-> file]

\* entries of small catalogs: anchors, leaves, other blocks and categories,
\* categories outside CATEGORY_TITLES, an identifier written with Arabic-Indic
\* digits, identifiers that ID_RE rejects
SmallEntries ==
    { Entry(PS \o Fmt03d(200), "index.md"),
      Entry(PS \o Fmt03d(200), "leaf.md"),
      Entry(PS \o Fmt03d(201), "leaf.md"),
      Entry(PS \o Fmt03d(1), "index.md"),
      Entry(PS \o Fmt03d(300), "INDEX.md"),
      Entry(PS \o <<"u0662", "u0660", "u0660">>, "index.md"),
      Entry(<<"T","S">> \o Fmt03d(200), "leaf.md"),
      Entry(<<"P","A","X">> \o Fmt03d(100), "index.md"),
      Entry(<<"X","Y">> \o Fmt03d(0), "index.md"),
      Entry(<<"p","s">> \o Fmt03d(1), "leaf.md"),
      Entry(<<"I","N","D","E","X">>, "index.md") }

SmallCatalogs == SeqsUpTo(SmallEntries, MaxEntries)

\* a run of one category's numbers lo..hi without skip; with anchored, the
\* entries whose number ends in 00 are index.md files
BulkShapes ==
    { [lo |-> 0,   hi |-> 99,  skip |-> -1,  anchored |-> TRUE],
      [lo |-> 0,   hi |-> 99,  skip |-> 50,  anchored |-> TRUE],
      [lo |-> 0,   hi |-> 99,  skip |-> 50,  anchored |-> FALSE],
      [lo |-> 1,   hi |-> 99,  skip |-> -1,  anchored |-> FALSE],
      [lo |-> 100, hi |-> 199, skip |-> -1,  anchored |-> TRUE],
      [lo |-> 100, hi |-> 199, skip |-> 100, anchored |-> TRUE],
      [lo |-> 1,   hi |-> 999, skip |-> -1,  anchored |-> FALSE],
      [lo |-> 1,   hi |-> 999, skip |-> 999, anchored |-> TRUE],
      [lo |-> 0,   hi |-> 999, skip |-> -1,  anchored |-> TRUE] }

Bulk(shape) ==
    LET numbers == SelectSeq([i \in 1..(shape.hi - shape.lo + 1) |-> shape.lo + i - 1],
                             LAMBDA n : n # shape.skip)
    IN  [i \in 1..Len(numbers) |->
            Entry(PS \o Fmt03d(numbers[i]),
                  IF shape.anchored /\ numbers[i] % 100 = 0 THEN "index.md" ELSE "leaf.md")]

BulkExtras ==
    { Entry(PS \o Fmt03d(0), "index.md"),
      Entry(PS \o Fmt03d(50), "leaf.md"),
      Entry(<<"T","S">> \o Fmt03d(100), "index.md") }

BulkCatalogs ==
    { Bulk(shape) \o x : shape \in BulkShapes, x \in SeqsUpTo(BulkExtras, 1) }

\* sets of used numbers: a range with up to MaxEdits numbers added or removed
UsedRanges == { {}, 0..99, 1..99, 100..199, 900..999, 1..998, 1..999, 0..999 }

EditNumbers == { 0, 1, 2, 50, 100, 199, 900, 999 }

UsedSets ==
    { (r \cup add) \ del :
        r \in UsedRanges,
        add \in { x \in SUBSET EditNumbers : Cardinality(x) <= MaxEdits },
        del \in { x \in SUBSET EditNumbers : Cardinality(x) <= MaxEdits } }

CallNextNumber ==
    /\ alloc_in.active
    /\ alloc_out.any = Pending
    /\ alloc_out' = [alloc_out EXCEPT !.any = next_number(alloc_in.used)]
    /\ UNCHANGED alloc_in
    /\ UNCHANGED registry_vars
    /\ UNCHANGED label_vars
    /\ UNCHANGED call_vars

CallNextInFamily ==
    /\ alloc_in.active
    /\ alloc_out.family = Pending
    /\ alloc_out' = [alloc_out EXCEPT
                        !.family = next_in_family(alloc_in.used, alloc_in.hund)]
    /\ UNCHANGED alloc_in
    /\ UNCHANGED registry_vars
    /\ UNCHANGED label_vars
    /\ UNCHANGED call_vars

InitRegistry ==
    /\ \/ /\ catalog \in SmallCatalogs \cup BulkCatalogs
          /\ alloc_in = NoCall
       \/ /\ catalog = <<>>
          /\ alloc_in \in [active : {TRUE}, used : UsedSets, hund : 0..9]
    /\ alloc_out = NoResult
    /\ registry = NoRegistry
    /\ registry_simple = NoRegistry
    /\ assignment = [kind |-> "missing", items |-> <<>>]
    /\ positions_csv = NoCsv
    /\ sheets_csv = NoCsv
    /\ comp_ids = <<>>
    /\ keep = <<>>
    /\ new = <<>>
    /\ order = <<>>
    /\ last_run = NoRun
    /\ InitNoCalls

NextRegistry == GenerateRegistry \/ CallNextNumber \/ CallNextInFamily

SpecRegistry == InitRegistry /\ [][NextRegistry]_vars

(***************************************************************************)
(* Direct calls of parse_id over bounded strings and of pack_sheets_stable *)
(* over bounded orders and artifact lookups                                *)
(***************************************************************************)
\* what a string given to parse_id can begin with, before its letters
ParsePrefixes == { <<>>, <<"x">>, <<" ">>, <<"\n">> }

ParseLetters ==
    { <<>>, <<"P">>, <<"P","S">>, <<"E","N","V">>, <<"P","S","A","B">>,
      <<"p","s">>, <<"P","s">>, <<"P","_">>, <<"Z","Z","Z">> }

ParseDigits ==
    { <<>>, <<"0">>, <<"0","0">>, <<"0","0","0">>, <<"0","0","1">>, <<"0","5","0">>,
      <<"1","0","0">>, <<"1","9","9">>, <<"2","0","0">>, <<"9","9","9">>,
      <<"0","0","1","1">>, <<"u0662","u0660","u0660">>, <<"0","u0661","0">>,
      <<"0","a","1">>, <<"0","0","x">> }

\* and what can follow its digits
ParseSuffixes == { <<>>, <<"\n">>, <<"\n","\n">>, <<"x">>, <<" ">>, <<"0","\n">> }

ParseInputs ==
    { a \o l \o d \o z :
        a \in ParsePrefixes, l \in ParseLetters, d \in ParseDigits, z \in ParseSuffixes }

CallParseId ==
    /\ parse_arg.active
    /\ ~parse_ret.done
    /\ parse_ret' = [done |-> TRUE, result |-> parse_id(parse_arg.comp_id)]
    /\ UNCHANGED <<parse_arg, pack_arg, pack_ret>>
    /\ UNCHANGED label_vars
    /\ UNCHANGED registry_vars
    /\ UNCHANGED alloc_vars

\* the identifiers of the orders and lookups pack_sheets_stable is called with
PackIds == { <<"A","1">>, <<"A","1","0">>, <<"A","2">>, <<"B","1">> }

\* the heights of the images a lookup can hold: a label as make_label_png
\* composes it, and a taller image
PackHeights == { LABEL_HEIGHT_PX, 5 * LABEL_HEIGHT_PX }

PackLookups == UNION { [S -> PackHeights] : S \in SUBSET PackIds }

CallPackSheets ==
    /\ pack_arg.active
    /\ ~pack_ret.done
    /\ pack_ret' = [done |-> TRUE,
                    sheets_meta |-> pack_sheets_stable(pack_arg.id_to_img,
                                                       pack_arg.order).sheets_meta,
                    positions |-> pack_sheets_stable(pack_arg.id_to_img,
                                                     pack_arg.order).positions]
    /\ UNCHANGED <<pack_arg, parse_arg, parse_ret>>
    /\ UNCHANGED label_vars
    /\ UNCHANGED registry_vars
    /\ UNCHANGED alloc_vars

InitCalls ==
    /\ \/ /\ parse_arg \in [active : {TRUE}, comp_id : ParseInputs]
          /\ pack_arg = NoPack
       \/ /\ parse_arg = NoParse
          /\ pack_arg \in [active : {TRUE}, id_to_img : PackLookups,
                           order : SeqsUpTo(PackIds, MaxOrderLen)]
    /\ parse_ret = NoParseRet
    /\ pack_ret = NoPackRet
    /\ catalog = <<>>
    /\ registry = NoRegistry
    /\ registry_simple = NoRegistry
    /\ alloc_in = NoCall
    /\ alloc_out = NoResult
    /\ assignment = [kind |-> "missing", items |-> <<>>]
    /\ positions_csv = NoCsv
    /\ sheets_csv = NoCsv
    /\ comp_ids = <<>>
    /\ keep = <<>>
    /\ new = <<>>
    /\ order = <<>>
    /\ last_run = NoRun

NextCalls == CallParseId \/ CallPackSheets

SpecCalls == InitCalls /\ [][NextCalls]_vars

(***************************************************************************)
(* Claims about the stable order (specification Spec)                      *)
(***************************************************************************)
\* the order a run finds persisted: the list of a well-formed assignment.json
PersistedOrder == IF assignment.kind = "ok" THEN assignment.items ELSE <<>>

FirstIndex(list, x) ==
    CHOOSE i \in DOMAIN list : list[i] = x /\ \A j \in 1..(i - 1) : list[j] # x

StrictlyAscending(list) ==
    \A i \in 1..(Len(list) - 1) : StrLess(list[i], list[i + 1])

\* C1: every run's order is retained + fresh: the persisted order filtered to the
\* current identifiers, in its order, followed by the current identifiers the
\* persisted order lacks, in ascending lexicographic order.
C1_RetainedThenFresh ==
    [][ LET cur == ListSet(comp_ids')
            retained == SelectSeq(PersistedOrder, LAMBDA x : x \in cur)
            fresh == cur \ ListSet(PersistedOrder)
            n == Len(retained)
        IN  /\ Len(order') = n + Cardinality(fresh)
            /\ SubSeq(order', 1, n) = retained
            /\ { order'[i] : i \in (n + 1)..Len(order') } = fresh
            /\ StrictlyAscending(SubSeq(order', n + 1, Len(order'))) ]_vars

\* C1 witness: a run dropped an identifier, retained others and appended a fresh
\* one that sorts before the first retained one (the [D,A,C] that never happens).
C1_Witness ==
    /\ last_run.dropped # {}
    /\ keep # <<>> /\ new # <<>>
    /\ order = keep \o new
    /\ StrLess(new[1], keep[1])

\* C2: two identifiers that are in the persisted order before a run and in the
\* current set of that run keep their relative order through the run.
C2_RelativeOrderKept ==
    [][ \A x \in ListSet(PersistedOrder) \cap ListSet(comp_ids') :
        \A y \in ListSet(PersistedOrder) \cap ListSet(comp_ids') :
            FirstIndex(PersistedOrder, x) < FirstIndex(PersistedOrder, y)
            => /\ InList(x, order') /\ InList(y, order')
               /\ FirstIndex(order', x) < FirstIndex(order', y) ]_vars

\* C2 witness: a run after an earlier run, which dropped an identifier and added
\* one, retained two identifiers in an order that is not the lexicographic one.
C2_Witness ==
    /\ last_run.rerun
    /\ last_run.dropped # {} /\ new # <<>>
    /\ Len(keep) >= 2
    /\ StrLess(keep[2], keep[1])

\* C3 as stated: every identifier the previous run placed and that is still in
\* the catalog is placed on the same sheet at the same position.
C3_NeverReshuffled ==
    [][ \A k \in DOMAIN positions_csv.rows :
            InList(positions_csv.rows[k].id, comp_ids')
            => \E j \in DOMAIN positions_csv'.rows :
                    positions_csv'.rows[j] = positions_csv.rows[k] ]_vars

\* C3 amended: a placement of the previous run is repeated, same sheet and same
\* position, when its identifier and every identifier placed before it by the
\* previous run are still in the catalog.
C3_PlacementsBeforeRemovalKept ==
    [][ \A k \in DOMAIN positions_csv.rows :
            (\A j \in 1..k : InList(positions_csv.rows[j].id, comp_ids'))
            => /\ k \in DOMAIN positions_csv'.rows
               /\ positions_csv'.rows[k] = positions_csv.rows[k] ]_vars

\* C3 witness: the catalog grew after a run that had filled a first sheet and
\* begun a second; the label on the second sheet is where it was.
C3_Witness ==
    /\ last_run.rerun
    /\ last_run.dropped = {} /\ new # <<>>
    /\ Len(keep) >= 5
    /\ positions_csv.rows[5] =
          [sheet |-> <<"sheet_", "0", "0", "2", ".png">>, position |-> 1, id |-> keep[5]]

\* C4: a run with the identifiers of the run before it returns the same order
\* and leaves assignment.json as it was.
C4_SameIdsSameOrder ==
    [][ (positions_csv.exists /\ comp_ids' = comp_ids)
        => (order' = order /\ assignment' = assignment) ]_vars

\* C4 witness: a run repeated the identifiers of the run before it, over an
\* order of several identifiers that is not simply the sorted one.
C4_Witness ==
    /\ last_run.same_ids
    /\ Len(order) >= 3
    /\ ~StrictlyAscending(order)
    /\ assignment = [kind |-> "ok", items |-> order]

\* C5: a run that finds assignment.json missing, not JSON, or not an object with
\* a list under "order" loads the empty order (it retains and drops nothing) and
\* returns the current identifiers in ascending lexicographic order.
C5_UnusableFileGivesSortedIds ==
    last_run.file_kind \in {"missing", "invalid_json", "not_dict",
                            "no_order_key", "order_not_list"}
    => /\ keep = <<>>
       /\ last_run.dropped = {}
       /\ Len(order) = Len(comp_ids)
       /\ ListSet(order) = ListSet(comp_ids)
       /\ StrictlyAscending(order)

\* C5 witness: a run found an object whose "order" is no list and returned
\* several identifiers, sorted.
C5_Witness ==
    /\ last_run.file_kind = "order_not_list"
    /\ Len(order) >= 3
    /\ order = new

(***************************************************************************)
(* Claims about the registry (specification SpecRegistry)                  *)
(***************************************************************************)
\* the number three ASCII digits write
Decode3(d) ==
    100 * (CodePoint[d[1]] - 48) + 10 * (CodePoint[d[2]] - 48) + (CodePoint[d[3]] - 48)

IsAscii3(d) == Len(d) = 3 /\ \A i \in 1..3 : d[i] \in AsciiDigits

\* result is the smallest number of lo..hi that is not used, as three
\* zero-padded digits behind prefix, and None exactly when there is none
IsSmallestFree(result, prefix, lo, hi, used) ==
    IF \A n \in lo..hi : n \in used
    THEN result = None
    ELSE /\ result # None
         /\ Len(result) = Len(prefix) + 3
         /\ SubSeq(result, 1, Len(prefix)) = prefix
         /\ IsAscii3(SubSeq(result, Len(prefix) + 1, Len(result)))
         /\ Decode3(SubSeq(result, Len(prefix) + 1, Len(result))) \in (lo..hi) \ used
         /\ \A m \in lo..(Decode3(SubSeq(result, Len(prefix) + 1, Len(result))) - 1) :
                m \in used

\* the entries of the catalog whose identifier the generator accepts
Accepted == { i \in DOMAIN catalog : ID_RE_letters(catalog[i].id) # 0 }

CatOf(i) == parse_id(catalog[i].id).cat
NumOf(i) == parse_id(catalog[i].id).num
KeyOf(i) == CatOf(i) \o <<DigitChar[(NumOf(i) \div 100) + 1], "x", "x">>

\* C6: next_number gives the smallest number of 1..999 that is not used, as 3
\* zero-padded digits, and None exactly when 1..999 are all used; every known
\* category's next_any is that result for its used numbers, behind its code.
C6_NextFreeIsSmallestUnused ==
    /\ alloc_out.any # Pending
       => IsSmallestFree(alloc_out.any, <<>>, 1, 999, alloc_in.used)
    /\ registry.exists
       => \A c \in DOMAIN registry.categories :
            IsSmallestFree(registry.categories[c].next_any, c, 1, 999,
                           registry.categories[c].used_numbers)

\* C6 witness: a category with 1..998 in use; 999 is the last number left.
C6_Witness ==
    /\ registry.exists
    /\ registry.categories[PS].used_numbers = 1..998
    /\ registry.categories[PS].next_any = <<"P", "S", "9", "9", "9">>

\* C7: next_in_family gives the smallest unused number of its block
\* hund*100 .. hund*100+99 and None when the block is full; an anchored family of
\* a known category has that number behind the category code in next_by_family,
\* and no entry when its block is full.
C7_NextInFamilyStaysInBlock ==
    /\ alloc_out.family # Pending
       => IsSmallestFree(alloc_out.family, <<>>,
                         alloc_in.hund * 100, alloc_in.hund * 100 + 99, alloc_in.used)
    /\ registry.exists
       => \A c \in DOMAIN registry.categories : \A h \in 0..9 :
            LET fk == c \o <<DigitChar[h + 1], "x", "x">>
                rec == registry.categories[c]
                block == (h * 100)..(h * 100 + 99)
            IN  fk \in DOMAIN registry.families
                => IF block \subseteq rec.used_numbers
                   THEN fk \notin DOMAIN rec.next_by_family
                   ELSE /\ fk \in DOMAIN rec.next_by_family
                        /\ IsSmallestFree(rec.next_by_family[fk], c,
                                          h * 100, h * 100 + 99, rec.used_numbers)

\* C7 witness: block 0 of a category used except for 050, and anchored.
C7_Witness ==
    /\ registry.exists
    /\ registry.categories[PS].used_numbers = (0..99) \ {50}
    /\ <<"P", "S", "0", "x", "x">> \in DOMAIN registry.families
    /\ registry.categories[PS].next_by_family[<<"P", "S", "0", "x", "x">>]
          = <<"P", "S", "0", "5", "0">>

C9_MembersAreTheBlockSorted ==
    registry.exists
    => \A k \in DOMAIN registry.families :
          LET members == registry.families[k].members
              mine == { i \in Accepted : KeyOf(i) = k }
          IN  /\ ListSet(members) = { catalog[i].id : i \in mine }
              /\ Len(members) = Cardinality(mine)
              /\ \A i \in 1..(Len(members) - 1) :
                    parse_id(members[i]).num <= parse_id(members[i + 1]).num

\* C9 witness: a leaf entry PS201 filed before the anchor PS200.
C9_Witness ==
    /\ registry.exists
    /\ catalog = << Entry(PS \o <<"2", "0", "1">>, "leaf.md"),
                    Entry(PS \o <<"2", "0", "0">>, "index.md") >>
    /\ registry.families[<<"P", "S", "2", "x", "x">>].members
          = << PS \o <<"2", "0", "0">>, PS \o <<"2", "0", "1">> >>

\* C10: the category report has a record for each of the 10 known codes and for
\* nothing else; a record holds the numbers of the accepted entries of exactly
\* its category, a category without entries reports count 0 and next_any
\* <code>001, and next_by_family names families of its own category only.
C10_CategoriesAreTheKnownCodes ==
    registry.exists
    => /\ DOMAIN registry.categories = CATEGORY_TITLES
       /\ Cardinality(DOMAIN registry.categories) = 10
       /\ DOMAIN registry_simple.categories = DOMAIN registry.categories
       /\ \A c \in DOMAIN registry.categories :
            LET rec == registry.categories[c]
                mine == { i \in Accepted : CatOf(i) = c }
            IN  /\ rec.used_numbers = { NumOf(i) : i \in mine }
                /\ rec.count = Cardinality(rec.used_numbers)
                /\ registry_simple.categories[c].count = rec.count
                /\ mine = {} => (rec.count = 0 /\ rec.next_any = c \o <<"0", "0", "1">>)
                /\ \A fk \in DOMAIN rec.next_by_family :
                      \E h \in 0..9 : fk = c \o <<DigitChar[h + 1], "x", "x">>

\* C10 witness: entries of categories PAX and XY, which are no known codes; PA,
\* a prefix of PAX, reports nothing.
C10_Witness ==
    /\ registry.exists
    /\ { catalog[i].id : i \in DOMAIN catalog }
          = { <<"P", "A", "X", "1", "0", "0">>, <<"X", "Y", "0", "0", "0">> }
    /\ registry.categories[<<"P", "A">>].count = 0
    /\ registry.categories[<<"P", "A">>].next_any = <<"P", "A", "0", "0", "1">>
    /\ DOMAIN registry.categories[<<"P", "A">>].next_by_family = {}
    /\ Len(registry.ids) = 2

(***************************************************************************)
(* Claims about parse_id (specification SpecCalls)                         *)
(***************************************************************************)
\* exactly 2 or 3 letters A-Z followed by exactly 3 digits 0-9, nothing else
ExactForm(str) ==
    \E L \in {2, 3} :
        /\ Len(str) = L + 3
        /\ \A i \in 1..L : str[i] \in UpperAZ
        /\ \A i \in (L + 1)..(L + 3) : str[i] \in AsciiDigits

\* C11: parse_id accepts a string exactly when it is 2 or 3 letters A-Z followed
\* by 3 digits 0-9 with nothing before or after; it then returns the letters, the
\* number the digits write, number \div 100 and whether number % 100 = 0; for
\* every other string it returns the not-conforming result.
C11_ParseIdExactPattern ==
    parse_ret.done
    => LET str == parse_arg.comp_id
           r == parse_ret.result
       IN  IF ExactForm(str)
           THEN /\ r.cat = SubSeq(str, 1, Len(str) - 3)
                /\ r.num = Decode3(SubSeq(str, Len(str) - 2, Len(str)))
                /\ r.num \in 0..999
                /\ r.hund = r.num \div 100
                /\ r.is_anchor = (r.num % 100 = 0)
           ELSE /\ r.cat = None
                /\ r.num = None
                /\ r.hund = None
                /\ r.is_anchor = FALSE

(***************************************************************************)
(* Claims about non-conforming entries (specification SpecRegistry)        *)
(***************************************************************************)
\* the entries of the catalog whose identifier is not of the exact form
NonConforming == { i \in DOMAIN catalog : ~ExactForm(catalog[i].id) }

\* C12: every entry whose identifier is non-conforming gets one warning that
\* names it, and gives no record to ids, no number to a category's used numbers
\* and no member to a family; the run completes and reports all the other entries.
C12_NonConformingOnlyWarned ==
    registry.exists
    => LET others == DOMAIN catalog \ NonConforming
           number(i) == Decode3(SubSeq(catalog[i].id, Len(catalog[i].id) - 2,
                                       Len(catalog[i].id)))
           letters(i) == SubSeq(catalog[i].id, 1, Len(catalog[i].id) - 3)
       IN  /\ Len(registry.warnings) = Cardinality(NonConforming)
           /\ \A i \in NonConforming :
                /\ \E w \in DOMAIN registry.warnings :
                      registry.warnings[w]
                        = <<"skip-nonstandard-id", catalog[i].id, catalog[i].file>>
                /\ \A j \in DOMAIN registry.ids : registry.ids[j].id # catalog[i].id
                /\ \A k \in DOMAIN registry.families :
                      ~InList(catalog[i].id, registry.families[k].members)
           /\ Len(registry.ids) = Cardinality(others)
           /\ \A i \in others :
                \E j \in DOMAIN registry.ids : registry.ids[j].id = catalog[i].id
           /\ \A c \in DOMAIN registry.categories :
                registry.categories[c].used_numbers
                  = { number(i) : i \in { j \in others : letters(j) = c } }

(***************************************************************************)
(* Claims about the packer (specification SpecCalls)                       *)
(***************************************************************************)
\* the placement rows of the sheet with the given name, in table order
RowsOf(positions, sheet) == SelectSeq(positions, LAMBDA row : row.sheet = sheet)

RECURSIVE HeightOfRows(_, _)
HeightOfRows(rows, id_to_img) ==
    IF rows = <<>> THEN 0
    ELSE id_to_img[Head(rows).id] + HeightOfRows(Tail(rows), id_to_img)

\* the identifiers of the order that have an artifact, in order
Packable == SelectSeq(pack_arg.order, LAMBDA cid : cid \in DOMAIN pack_arg.id_to_img)

\* maximum sheet heights a deployment can configure: room for 1, 2, 3 or 4
\* labels of LABEL_HEIGHT_PX with their gaps
SheetHeightLimits == { k * LABEL_HEIGHT_PX + (k - 1) * LABEL_GAP_PX : k \in 1..4 }

SheetIndex(sheets_meta, sheet) ==
    CHOOSE s \in DOMAIN sheets_meta : sheets_meta[s].sheet = sheet

RECURSIVE LabelsTotal(_)
LabelsTotal(sheets_meta) ==
    IF sheets_meta = <<>> THEN 0
    ELSE Head(sheets_meta).labels + LabelsTotal(Tail(sheets_meta))

\* C14: the placement rows run sheet by sheet and, within a sheet, by position;
\* read so, their identifiers are the order restricted to the identifiers that
\* have an artifact (one without an artifact is skipped, those after it are
\* packed, none with an artifact is dropped), and the sheets' label counts add
\* up to the number of identifiers with artifacts.
C14_PlacementsAreThePackableOrder ==
    pack_ret.done
    => /\ \A k \in DOMAIN pack_ret.positions :
            \E s \in DOMAIN pack_ret.sheets_meta :
                pack_ret.sheets_meta[s].sheet = pack_ret.positions[k].sheet
       /\ \A k \in 1..(Len(pack_ret.positions) - 1) :
            LET a == pack_ret.positions[k]
                b == pack_ret.positions[k + 1]
                sa == SheetIndex(pack_ret.sheets_meta, a.sheet)
                sb == SheetIndex(pack_ret.sheets_meta, b.sheet)
            IN  \/ sa < sb
                \/ (sa = sb /\ a.position < b.position)
       /\ [k \in DOMAIN pack_ret.positions |-> pack_ret.positions[k].id] = Packable
       /\ LabelsTotal(pack_ret.sheets_meta) = Len(Packable)

\* C14 witness: the second identifier of the order has no artifact, the first
\* and the three after it have, and all four are placed.
C14_Witness ==
    /\ pack_ret.done
    /\ Len(pack_arg.order) = 5
    /\ pack_arg.order[2] \notin DOMAIN pack_arg.id_to_img
    /\ \A k \in {1, 3, 4, 5} : pack_arg.order[k] \in DOMAIN pack_arg.id_to_img
    /\ Len(pack_ret.positions) = 4
    /\ pack_ret.positions[2].id = pack_arg.order[3]

\* C15: the sheets are numbered 1, 2, 3, ... without gaps (sheet_001.png, ...);
\* sheet s holds the packable identifiers 4(s-1)+1 .. 4s, at positions 1, 2, ...
\* in that order; every sheet but the last holds exactly 4 labels and the last
\* between 1 and 4, so no sheet is empty and a trailing partial group is kept.
C15_ConsecutiveGroupsOfFour ==
    pack_ret.done
    => LET sheets_meta == pack_ret.sheets_meta
           n == Len(sheets_meta)
       IN  /\ 4 * (n - 1) < Len(Packable) \/ n = 0
           /\ Len(Packable) <= 4 * n
           /\ \A s \in 1..n :
                LET rows == RowsOf(pack_ret.positions, sheets_meta[s].sheet)
                IN  /\ sheets_meta[s].sheet = <<"sheet_">> \o Fmt03d(s) \o <<".png">>
                    /\ s < n => sheets_meta[s].labels = 4
                    /\ sheets_meta[s].labels \in 1..4
                    /\ Len(rows) = sheets_meta[s].labels
                    /\ \A k \in DOMAIN rows :
                          /\ rows[k].position = k
                          /\ rows[k].id = Packable[4 * (s - 1) + k]

\* C15 witness: five packable identifiers: a full first sheet and a second
\* sheet with the one label left over.
C15_Witness ==
    /\ pack_ret.done
    /\ Len(Packable) = 5
    /\ Len(pack_ret.sheets_meta) = 2
    /\ pack_ret.sheets_meta[2].sheet = <<"sheet_", "0", "0", "2", ".png">>
    /\ pack_ret.sheets_meta[2].labels = 1
    /\ pack_ret.positions[5].position = 1
    /\ pack_ret.positions[5].id = pack_arg.order[5]

(***************************************************************************)
(* Claims about the files of the label build                               *)
(***************************************************************************)
NoRepeat(list) ==
    \A i \in DOMAIN list : \A j \in DOMAIN list : list[i] = list[j] => i = j

\* C16 (specification SpecFresh): after every run, assignment.json holds the
\* order build_order returned, which is the order the packer placed; it names no
\* identifier twice and names exactly the identifiers of that run.
C16_PersistedOrderIsTheRunsOrder ==
    last_run.file_kind # "none"
    => /\ assignment = [kind |-> "ok", items |-> order]
       /\ [k \in DOMAIN positions_csv.rows |-> positions_csv.rows[k].id]
            = assignment.items
       /\ NoRepeat(assignment.items)
       /\ ListSet(assignment.items) = ListSet(comp_ids)
       /\ Len(assignment.items) = Len(comp_ids)

\* C16 witness: a later run dropped an identifier, kept two in an order that is
\* not the sorted one and appended a new one; the file holds that order.
C16_Witness ==
    /\ last_run.rerun
    /\ last_run.dropped # {}
    /\ Len(keep) >= 2 /\ StrLess(keep[2], keep[1])
    /\ new # <<>>
    /\ assignment.items = keep \o new

\* C17 (specification Spec): after every run, sheets.csv and sheet_positions.csv
\* describe the same sheets: a sheet named in one is named in the other, and a
\* sheet's label count is its number of placement rows.
C17_TablesDescribeTheSameSheets ==
    last_run.file_kind # "none"
    => /\ { sheets_csv.rows[s].sheet : s \in DOMAIN sheets_csv.rows }
            = { positions_csv.rows[k].sheet : k \in DOMAIN positions_csv.rows }
       /\ \A s \in DOMAIN sheets_csv.rows :
            sheets_csv.rows[s].labels
              = Len(RowsOf(positions_csv.rows, sheets_csv.rows[s].sheet))

(***************************************************************************)
(* Claims about repeated identifiers (specification SpecRegistry)          *)
(***************************************************************************)
\* C18: in the registry of any catalog, no identifier occurs twice in ids or in
\* a family's members, and a category's count is the number of ids records of
\* that category.
C18_NoIdentifierTwice ==
    registry.exists
    => /\ NoRepeat([j \in DOMAIN registry.ids |-> registry.ids[j].id])
       /\ \A k \in DOMAIN registry.families : NoRepeat(registry.families[k].members)
       /\ \A c \in DOMAIN registry.categories :
            registry.categories[c].count
              = Cardinality({ j \in DOMAIN registry.ids : registry.ids[j].category = c })

====
